---- MODULE Spec2Model ----
(***************************************************************************)
(* Field-level permission resolution of django-field-permissions:          *)
(*   FieldPermissionModelMixin.has_perm / has_field_perm   (models.py)     *)
(*   InstancePermissionBackend.has_perm                    (backends.py)   *)
(*   FieldPermissionFormMixin.__init__                     (forms.py)      *)
(*   FieldPermissionSerializerMixin.__init__      (api/rest_framework.py)  *)
(*                                                                         *)
(* Python values are written as strings: "True", "False", "None" for the   *)
(* values a call returns and "NameError", "TypeError" for the exception a  *)
(* call raises.                                                             *)
(***************************************************************************)
EXTENDS Integers, Sequences, FiniteSets, TLC

VARIABLES
    field_permissions,                  \* the class attribute, models.py:4
    declared,                           \* history: the table as the class declared it
    FIELD_PERMISSION_MISSING_DEFAULT,   \* the class attribute, models.py:7
    attrs,                              \* the getters the model class defines
    permissions,                        \* the codenames of Meta.permissions
    out,                                \* the last finished operation and what it did
    stack                               \* the frames of a running user.has_perm(perm, obj)

vars == <<field_permissions, declared, FIELD_PERMISSION_MISSING_DEFAULT, attrs,
          permissions, out, stack>>

config == <<declared, FIELD_PERMISSION_MISSING_DEFAULT, attrs, permissions>>

----------------------------------------------------------------------------
(* The world around the model class.                                       *)

Instances == {"doc1", "doc2"}
Users == {"alice", "bob", "carol"}
model_name == "document"
model_field_names == <<"salary", "ssn", "title">>

is_manager == [u \in Users |-> u = "alice"]

granted ==
    [u \in Users |->
        CASE u = "alice" -> {"hr.view"}
          [] u = "bob"   -> {"hr.edit", "can_change_document_title"}
          [] OTHER       -> {}]

\* user.has_perm(perm) with no object: the user's own capability.
user_has_perm(user, perm) == perm \in granted[user]

----------------------------------------------------------------------------
(* Checks.  A check is a permission label (a string) or a callable; a      *)
(* callable wrapped by partial(perm, field=f) carries the bound keyword.   *)

Label(l) == [kind |-> "label", name |-> l, field |-> "-"]
Callable(n) == [kind |-> "callable", name |-> n, field |-> "-"]

callable(perm) == perm.kind = "callable"

\* What a callable of the examples returns for (instance, user).
CallPredicate(perm, self, user) ==
    CASE perm.name = "is_manager" -> IF is_manager[user] THEN "True" ELSE "False"
      [] perm.name = "deny"       -> "False"
      [] OTHER                    -> "None"

FIELD_PERM_CODENAME(model, name) == "can_change_" \o model \o "_" \o name
FIELD_PERMISSION_GETTER(name) == "can_change_" \o name

\* The attributes of a model instance: the mixin's two methods (models.py:12, 15)
\* and the getters its class defines.  Any other object here has none of them.
hasattr(self, name) ==
    self \in Instances /\ (name \in DOMAIN attrs \/ name \in {"has_perm", "has_field_perm"})
getattr(self, name) == attrs[name]

\* Variant: the name is bound to functools.partial.
partial_functools(perm, field) ==
    [raised |-> "", value |-> [perm EXCEPT !.field = field]]

\* models.py:22 calls the name `partial`; the module imports only django.db.models
\* (models.py:1), so looking the name up raises NameError and nothing is assigned.
partial(perm, field) == [raised |-> "NameError", value |-> perm]

\* models.py:20-22: for i, perm in enumerate(checks): checks[i] = partial(...)
\* A list is assigned in place, a tuple refuses the assignment.
RECURSIVE WrapLoop(_, _, _, _)
WrapLoop(shape, items, field, i) ==
    IF i > Len(items) THEN [raised |-> "", items |-> items]
    ELSE IF ~callable(items[i]) THEN WrapLoop(shape, items, field, i + 1)
    ELSE LET p == partial(items[i], field) IN
         IF p.raised # "" THEN [raised |-> p.raised, items |-> items]
         ELSE IF shape = "tuple" THEN [raised |-> "TypeError", items |-> items]
         ELSE WrapLoop(shape, [items EXCEPT ![i] = p.value], field, i + 1)

\* Variant: the static permission is looked up before the getter.
ResolveChecksStaticFirst(table, self, field) ==
    IF field \in DOMAIN table
    THEN LET e == table[field]
             w == WrapLoop(e.shape, e.items, field, 1)
         IN  [source |-> "table", raised |-> w.raised, checks |-> w.items,
              table |-> IF e.shape = "list"
                        THEN [table EXCEPT ![field].items = w.items]
                        ELSE table]
    ELSE LET getter_name == FIELD_PERMISSION_GETTER(field)
             perm_label  == FIELD_PERM_CODENAME(model_name, field)
         IN  IF perm_label \in permissions
             THEN [source |-> "static", raised |-> "",
                   checks |-> <<Label(perm_label)>>, table |-> table]
             ELSE IF hasattr(self, getter_name)
             THEN [source |-> "getter", raised |-> "",
                   checks |-> <<getattr(self, getter_name)>>,
                   table |-> table]
             ELSE [source |-> "none", raised |-> "", checks |-> <<>>,
                   table |-> table]

\* models.py:16-39: the checks has_field_perm scans, where they come from, and
\* the table (self.field_permissions) as the wrapping loop leaves it (a bare
\* entry is put in a new list, models.py:19; a list entry is the class's own
\* list object).
ResolveChecks(table, self, field) ==
    IF field \in DOMAIN table
    THEN LET e == table[field]
             w == WrapLoop(e.shape, e.items, field, 1)
         IN  [source |-> "table", raised |-> w.raised, checks |-> w.items,
              table |-> IF e.shape = "list"
                        THEN [table EXCEPT ![field].items = w.items]
                        ELSE table]
    ELSE LET getter_name == FIELD_PERMISSION_GETTER(field)
             perm_label  == FIELD_PERM_CODENAME(model_name, field)
         IN  IF hasattr(self, getter_name)
             THEN [source |-> "getter", raised |-> "",
                   checks |-> <<getattr(self, getter_name)>>,
                   table |-> table]
             ELSE IF perm_label \in permissions
             THEN [source |-> "static", raised |-> "",
                   checks |-> <<Label(perm_label)>>, table |-> table]
             ELSE [source |-> "none", raised |-> "", checks |-> <<>>,
                   table |-> table]

CallEvent(perm, self, user) ==
    [ev |-> "call", name |-> perm.name, self |-> self, user |-> user,
     field |-> perm.field, obj |-> "-"]
HasPermEvent(perm, user) ==
    [ev |-> "user.has_perm", name |-> perm.name, self |-> "-", user |-> user,
     field |-> "-", obj |-> "None"]

\* Variant: a label the user does not hold ends the scan.
RECURSIVE ScanLabelDenies(_, _, _, _, _)
ScanLabelDenies(self, user, checks, i, log) ==
    IF i > Len(checks) THEN [ret |-> "False", log |-> log]
    ELSE LET perm == checks[i] IN
         IF callable(perm)
         THEN LET result == CallPredicate(perm, self, user)
                  log2 == Append(log, CallEvent(perm, self, user))
              IN  IF result # "None" THEN [ret |-> result, log |-> log2]
                  ELSE ScanLabelDenies(self, user, checks, i + 1, log2)
         ELSE LET result == user_has_perm(user, perm.name)
                  log2 == Append(log, HasPermEvent(perm, user))
              IN  [ret |-> IF result THEN "True" ELSE "False", log |-> log2]

\* models.py:46-57: the scan.  log is the sequence of calls made so far.
RECURSIVE Scan(_, _, _, _, _)
Scan(self, user, checks, i, log) ==
    IF i > Len(checks) THEN [ret |-> "False", log |-> log]
    ELSE LET perm == checks[i] IN
         IF callable(perm)
         THEN LET result == CallPredicate(perm, self, user)
                  log2 == Append(log, CallEvent(perm, self, user))
              IN  IF result # "None" THEN [ret |-> result, log |-> log2]
                  ELSE Scan(self, user, checks, i + 1, log2)
         ELSE LET result == user_has_perm(user, perm.name)
                  log2 == Append(log, HasPermEvent(perm, user))
              IN  IF result THEN [ret |-> "True", log |-> log2]
                  ELSE Scan(self, user, checks, i + 1, log2)

\* Variant: an empty checks list is scanned like any other.
has_field_perm_NoDefault(table, self, user, field) ==
    LET r == ResolveChecks(table, self, field)
        base == [op |-> "has_field_perm", self |-> self, user |-> user,
                 field |-> field, source |-> r.source, checks |-> r.checks,
                 table |-> r.table]
    IN  IF r.raised # ""
        THEN base @@ [ret |-> r.raised, log |-> <<>>]
        ELSE base @@ Scan(self, user, r.checks, 1, <<>>)

\* models.py:15-57
has_field_perm(table, self, user, field) ==
    LET r == ResolveChecks(table, self, field)
        base == [op |-> "has_field_perm", self |-> self, user |-> user,
                 field |-> field, source |-> r.source, checks |-> r.checks,
                 table |-> r.table]
    IN  IF r.raised # ""
        THEN base @@ [ret |-> r.raised, log |-> <<>>]
        ELSE IF Len(r.checks) = 0
        THEN base @@ [ret |-> FIELD_PERMISSION_MISSING_DEFAULT, log |-> <<>>]
        ELSE base @@ Scan(self, user, r.checks, 1, <<>>)

Raised(ret) == ret \in {"NameError", "TypeError"}

----------------------------------------------------------------------------
(* Form and serializer construction.                                       *)

\* Variant: the field is removed when the permission is granted.
RECURSIVE FormLoopInverted(_, _, _, _, _, _)
FormLoopInverted(table, instance, user, i, fields, calls) ==
    IF i > Len(model_field_names)
    THEN [status |-> "built", fields |-> fields, table |-> table, calls |-> calls]
    ELSE LET name == model_field_names[i] IN
         IF name \notin fields
         THEN FormLoopInverted(table, instance, user, i + 1, fields, calls)
         ELSE LET r == has_field_perm(table, instance, user, name) IN
              IF Raised(r.ret)
              THEN [status |-> r.ret, fields |-> fields, table |-> r.table,
                    calls |-> Append(calls, name)]
              ELSE FormLoopInverted(r.table, instance, user, i + 1,
                            IF r.ret = "True" THEN fields \ {name} ELSE fields,
                            Append(calls, name))

\* forms.py:14-16, remove_unauthorized_field (forms.py:18-19) included.
\* calls is the sequence of names has_field_perm was asked about.
RECURSIVE FormLoop(_, _, _, _, _, _)
FormLoop(table, instance, user, i, fields, calls) ==
    IF i > Len(model_field_names)
    THEN [status |-> "built", fields |-> fields, table |-> table, calls |-> calls]
    ELSE LET name == model_field_names[i] IN
         IF name \notin fields
         THEN FormLoop(table, instance, user, i + 1, fields, calls)
         ELSE LET r == has_field_perm(table, instance, user, name) IN
              IF Raised(r.ret)
              THEN [status |-> r.ret, fields |-> fields, table |-> r.table,
                    calls |-> Append(calls, name)]
              ELSE FormLoop(r.table, instance, user, i + 1,
                            IF r.ret = "False" THEN fields \ {name} ELSE fields,
                            Append(calls, name))

\* api/rest_framework.py:18-20
RECURSIVE SerializerLoop(_, _, _, _, _, _, _)
SerializerLoop(table, instance, user, i, fields, read_only, calls) ==
    IF i > Len(model_field_names)
    THEN [status |-> "built", fields |-> fields, read_only |-> read_only,
          table |-> table, calls |-> calls]
    ELSE LET name == model_field_names[i] IN
         IF name \notin fields
         THEN SerializerLoop(table, instance, user, i + 1, fields, read_only, calls)
         ELSE LET r == has_field_perm(table, instance, user, name) IN
              IF Raised(r.ret)
              THEN [status |-> r.ret, fields |-> fields, read_only |-> read_only,
                    table |-> r.table, calls |-> Append(calls, name)]
              ELSE SerializerLoop(r.table, instance, user, i + 1, fields,
                                  IF r.ret = "False" THEN read_only \cup {name}
                                                     ELSE read_only,
                                  Append(calls, name))

----------------------------------------------------------------------------
(* Object-level delegation: user.has_perm(perm, obj) asks the backends,    *)
(* InstancePermissionBackend asks the object, the object asks the user.    *)

Frame(fn, user, perm, obj) ==
    [fn |-> fn, user |-> user, perm |-> perm, obj |-> obj, pc |-> "start", got |-> "-"]

\* Variant: has_perm hands the instance on as obj.
ModelHasPermObjSelf(self) == self

\* models.py:13: the obj argument has_perm hands to user.has_perm (none).
ModelHasPermObj(self) == "None"

\* Variant: the backend affirms when there is no object.
BackendDecisionAffirm(obj) ==
    IF obj = "None" THEN "True"
    ELSE IF ~hasattr(obj, "has_perm") THEN "True"
    ELSE "delegate"

\* backends.py:16-23: what the backend does with obj.
BackendDecision(obj) ==
    IF obj = "None" THEN "False"
    ELSE IF ~hasattr(obj, "has_perm") THEN "True"
    ELSE "delegate"

Top == stack[Len(stack)]
Push(f) == Append([stack EXCEPT ![Len(stack)].pc = "wait"], f)

\* The top frame returns v: its caller gets the value, the call is logged.
Return(v) ==
    LET f == Top
        rest == SubSeq(stack, 1, Len(stack) - 1)
        entry == [fn |-> f.fn, user |-> f.user, perm |-> f.perm, obj |-> f.obj,
                  ret |-> v]
    IN  /\ stack' = IF rest = <<>> THEN rest
                    ELSE [rest EXCEPT ![Len(rest)].got = v]
        /\ out' = [out EXCEPT !.log = Append(@, entry),
                              !.ret = IF rest = <<>> THEN v ELSE @]

----------------------------------------------------------------------------
(* The declarations a model class can make.                                *)

Entries ==
    { [shape |-> "bare",  items |-> <<Callable("is_manager")>>],
      [shape |-> "bare",  items |-> <<Label("hr.edit")>>],
      [shape |-> "list",  items |-> <<>>],
      [shape |-> "list",  items |-> <<Callable("abstain"), Label("hr.view")>>],
      [shape |-> "list",  items |-> <<Label("hr.view"), Callable("deny")>>],
      [shape |-> "list",  items |-> <<Callable("abstain"), Callable("is_manager")>>],
      [shape |-> "tuple", items |-> <<Label("hr.edit"), Label("hr.view")>>],
      [shape |-> "tuple", items |-> <<Callable("deny")>>] }

TitleEntries ==
    { [shape |-> "list", items |-> <<Label("hr.edit")>>] }

SsnEntries ==
    { [shape |-> "tuple", items |-> <<Label("hr.edit"), Label("hr.view")>>] }

Tables ==
    { t \in UNION { [D -> Entries \cup SsnEntries \cup TitleEntries] : D \in SUBSET {"salary", "ssn", "title"} } :
        /\ "salary" \in DOMAIN t => t["salary"] \in Entries
        /\ "ssn" \in DOMAIN t => t["ssn"] \in SsnEntries
        /\ "title" \in DOMAIN t => t["title"] \in TitleEntries }

Getters ==
    { <<>>,
      [n \in {"can_change_title"} |-> Callable("deny")],
      [n \in {"can_change_title", "can_change_salary"} |->
          IF n = "can_change_title" THEN Callable("is_manager") ELSE Callable("abstain")] }

DeclaredPermissions ==
    { {}, {"can_change_document_title", "can_change_document_ssn"} }

Idle == [op |-> "none"]

Init ==
    /\ field_permissions \in Tables
    /\ declared = field_permissions
    /\ FIELD_PERMISSION_MISSING_DEFAULT \in {"True", "False"}
    /\ attrs \in Getters
    /\ permissions \in DeclaredPermissions
    /\ out = Idle
    /\ stack = <<>>

MaxDepth == 8

CallHasFieldPerm ==
    /\ stack = <<>>
    /\ \E self \in Instances, user \in Users, field \in {"salary", "ssn", "title", "notes"} :
          LET r == has_field_perm(field_permissions, self, user, field) IN
          /\ out' = r
          /\ field_permissions' = r.table
    /\ UNCHANGED <<config, stack>>

FormFieldSets ==
    { {"salary", "ssn", "title", "captcha"}, {"ssn", "captcha"}, {"salary", "title"} }

\* forms.py:7-16
FormInit ==
    /\ stack = <<>>
    /\ \E user \in Users, instance \in {"doc1"}, fields \in FormFieldSets :
          LET r == FormLoop(field_permissions, instance, user, 1, fields, <<>>) IN
          /\ out' = [op |-> "form", user |-> user, instance |-> instance,
                     base_fields |-> fields] @@ r
          /\ field_permissions' = r.table
    /\ UNCHANGED <<config, stack>>

\* api/rest_framework.py:12-20
SerializerInit ==
    /\ stack = <<>>
    /\ \E user \in Users, instance \in {"doc2"}, fields \in FormFieldSets :
          LET base_read_only == fields \cap {"title"}
              r == SerializerLoop(field_permissions, instance, user, 1, fields,
                                  base_read_only, <<>>)
          IN
          /\ out' = [op |-> "serializer", user |-> user, instance |-> instance,
                     base_fields |-> fields, base_read_only |-> base_read_only] @@ r
          /\ field_permissions' = r.table
    /\ UNCHANGED <<config, stack>>

Objects == {"None", "plain", "doc1"}

\* A caller asks user.has_perm(perm, obj) or the backend itself.
CallHasPerm ==
    /\ stack = <<>>
    /\ \E fn \in {"User.has_perm", "InstancePermissionBackend.has_perm"},
          user \in Users, obj \in Objects :
          /\ stack' = <<Frame(fn, user, "hr.view", obj)>>
          /\ out' = [op |-> "has_perm", fn |-> fn, user |-> user, perm |-> "hr.view",
                     obj |-> obj, log |-> <<>>, ret |-> "-"]
    /\ UNCHANGED <<config, field_permissions>>

\* The framework's user.has_perm(perm, obj): the model-level backend answers only
\* without an object; then InstancePermissionBackend is asked.
UserHasPermStep ==
    /\ stack # <<>> /\ Top.fn = "User.has_perm"
    /\ IF Top.pc = "wait" THEN Top.got # "-" /\ Return(Top.got)
       ELSE IF Top.obj = "None" /\ user_has_perm(Top.user, Top.perm) THEN Return("True")
       ELSE /\ Len(stack) < MaxDepth
            /\ stack' = Push(Frame("InstancePermissionBackend.has_perm",
                                   Top.user, Top.perm, Top.obj))
            /\ UNCHANGED out
    /\ UNCHANGED <<config, field_permissions>>

\* backends.py:10-23
BackendHasPermStep ==
    /\ stack # <<>> /\ Top.fn = "InstancePermissionBackend.has_perm"
    /\ IF Top.pc = "wait" THEN Top.got # "-" /\ Return(Top.got)
       ELSE IF BackendDecision(Top.obj) # "delegate" THEN Return(BackendDecision(Top.obj))
       ELSE /\ Len(stack) < MaxDepth
            /\ stack' = Push(Frame("Model.has_perm", Top.user, Top.perm, Top.obj))
            /\ UNCHANGED out
    /\ UNCHANGED <<config, field_permissions>>

\* models.py:12-13; the frame's obj is self.
ModelHasPermStep ==
    /\ stack # <<>> /\ Top.fn = "Model.has_perm"
    /\ IF Top.pc = "wait" THEN Top.got # "-" /\ Return(Top.got)
       ELSE /\ Len(stack) < MaxDepth
            /\ stack' = Push(Frame("User.has_perm", Top.user, Top.perm,
                                   ModelHasPermObj(Top.obj)))
            /\ UNCHANGED out
    /\ UNCHANGED <<config, field_permissions>>

Next ==
    \/ CallHasFieldPerm
    \/ FormInit
    \/ SerializerInit
    \/ CallHasPerm
    \/ UserHasPermStep
    \/ BackendHasPermStep
    \/ ModelHasPermStep

Spec == Init /\ [][Next]_vars

\* A Python call runs to its return: a started call chain keeps stepping.
FairSpec == Spec /\ WF_vars(UserHasPermStep \/ BackendHasPermStep \/ ModelHasPermStep)

----------------------------------------------------------------------------
(* Properties.                                                             *)

IsFieldPermCall == out.op = "has_field_perm"

\* What one check says for (instance, user): a predicate's value, a label's holding.
Verdict(perm, self, user) ==
    IF callable(perm) THEN CallPredicate(perm, self, user)
    ELSE IF user_has_perm(user, perm.name) THEN "True" ELSE "None"

Undecided(checks, k, self, user) ==
    \A j \in 1..k : Verdict(checks[j], self, user) = "None"

OnlyLabels(checks) == \A j \in 1..Len(checks) : ~callable(checks[j])

\* C1: when the first check of the resolved list that decides is a predicate
\* returning a boolean, has_field_perm returns that boolean and evaluates that
\* predicate and the checks before it, and no check after it.
C1_DecisivePredicateReturned ==
    IsFieldPermCall =>
        \A k \in 1..Len(out.checks) :
            ( /\ callable(out.checks[k])
              /\ CallPredicate(out.checks[k], out.self, out.user) # "None"
              /\ Undecided(out.checks, k - 1, out.self, out.user) )
            => /\ out.ret = CallPredicate(out.checks[k], out.self, out.user)
               /\ Len(out.log) = k

\* The labels the scan asks the user about, in order, each without an object.
LabelQueries(checks, user, n) ==
    [j \in 1..n |-> HasPermEvent(checks[j], user)]

FirstHeld(checks, user) ==
    IF \E j \in 1..Len(checks) : user_has_perm(user, checks[j].name)
    THEN CHOOSE j \in 1..Len(checks) :
            /\ user_has_perm(user, checks[j].name)
            /\ \A i \in 1..(j - 1) : ~user_has_perm(user, checks[i].name)
    ELSE Len(checks)

\* C2: for a non-empty checks list of permission labels only, has_field_perm
\* returns True iff the user holds at least one of them (asked without an
\* object) and False otherwise, and every label up to the first one held (all
\* of them when none is held) is asked, in declaration order.
C2_LabelsAnyHeld ==
    (IsFieldPermCall /\ Len(out.checks) > 0 /\ OnlyLabels(out.checks)) =>
        /\ out.ret = IF \E j \in 1..Len(out.checks) :
                            user_has_perm(out.user, out.checks[j].name)
                     THEN "True" ELSE "False"
        /\ out.log = LabelQueries(out.checks, out.user, FirstHeld(out.checks, out.user))

C2_Witness ==
    /\ IsFieldPermCall /\ Len(out.checks) = 2 /\ OnlyLabels(out.checks)
    /\ ~user_has_perm(out.user, out.checks[1].name)
    /\ user_has_perm(out.user, out.checks[2].name)
    /\ out.ret = "True" /\ Len(out.log) = 2

\* C3: when the resolved checks list is empty (no table entry, no getter and no
\* registered static label, or an empty table entry), has_field_perm returns
\* FIELD_PERMISSION_MISSING_DEFAULT and asks neither the user nor a predicate.
C3_EmptyChecksDefault ==
    (IsFieldPermCall /\ Len(out.checks) = 0) =>
        /\ out.ret = FIELD_PERMISSION_MISSING_DEFAULT
        /\ out.log = <<>>

C3_Witness ==
    /\ IsFieldPermCall /\ out.field = "notes" /\ out.source = "none"
    /\ "can_change_notes" \notin DOMAIN attrs
    /\ "can_change_document_notes" \notin permissions
    /\ out.checks = <<>> /\ out.ret = "True"
    /\ FIELD_PERMISSION_MISSING_DEFAULT = "True"

\* C4: has_field_perm never returns None; when the checks list is non-empty and
\* every predicate abstains and no label is held, every check is evaluated and
\* has_field_perm returns False whatever FIELD_PERMISSION_MISSING_DEFAULT is.
C4_AbstainNeverReturned ==
    IsFieldPermCall =>
        /\ out.ret # "None"
        /\ ( /\ Len(out.checks) > 0
             /\ Undecided(out.checks, Len(out.checks), out.self, out.user) )
           => (out.ret = "False" /\ Len(out.log) = Len(out.checks))

IsChain == out.op = "has_perm"

\* C5: InstancePermissionBackend.has_perm returns False when obj is None, True
\* when obj has no has_perm attribute, and otherwise what obj.has_perm(user,
\* perm) returned.
C5_BackendHasPerm ==
    IsChain =>
        \A i \in 1..Len(out.log) :
            LET e == out.log[i] IN
            e.fn = "InstancePermissionBackend.has_perm" =>
                IF e.obj = "None" THEN e.ret = "False"
                ELSE IF e.obj \notin Instances THEN e.ret = "True"
                ELSE /\ i > 1
                     /\ out.log[i - 1].fn = "Model.has_perm"
                     /\ out.log[i - 1].obj = e.obj
                     /\ out.log[i - 1].user = e.user
                     /\ out.log[i - 1].perm = e.perm
                     /\ out.log[i - 1].ret = e.ret

C5_Witness ==
    /\ IsChain /\ stack = <<>>
    /\ \E i, j \in 1..Len(out.log) :
          /\ out.log[i].fn = "InstancePermissionBackend.has_perm"
          /\ out.log[i].obj = "None" /\ out.log[i].ret = "False"
          /\ out.log[j].fn = "InstancePermissionBackend.has_perm"
          /\ out.log[j].obj = "doc1"
          /\ out.log[j - 1].fn = "Model.has_perm"

\* The model fields present on a form or serializer, in the order they are visited.
RECURSIVE Present(_, _)
Present(names, fields) ==
    IF names = <<>> THEN <<>>
    ELSE IF Head(names) \in fields THEN <<Head(names)>> \o Present(Tail(names), fields)
    ELSE Present(Tail(names), fields)

Denied(instance, user, fields) ==
    { name \in fields :
        /\ \E i \in 1..Len(model_field_names) : model_field_names[i] = name
        /\ has_field_perm(field_permissions, instance, user, name).ret = "False" }

\* C6: a constructed form holds the fields it was built with minus the model
\* fields present on it that has_field_perm denies; a constructed serializer
\* keeps every field and adds exactly those to the read-only ones; either asks
\* has_field_perm once for each model field present and for no other name.
C6_FormAndSerializerFields ==
    /\ (out.op = "form" /\ out.status = "built") =>
          /\ out.fields = out.base_fields \ Denied(out.instance, out.user, out.base_fields)
          /\ out.calls = Present(model_field_names, out.base_fields)
    /\ (out.op = "serializer" /\ out.status = "built") =>
          /\ out.fields = out.base_fields
          /\ out.read_only = out.base_read_only
                               \cup Denied(out.instance, out.user, out.base_fields)
          /\ out.calls = Present(model_field_names, out.base_fields)

C6_Witness ==
    /\ out.op = "form" /\ out.status = "built"
    /\ out.base_fields = {"ssn", "captcha"}
    /\ out.fields = {"captcha"}
    /\ "salary" \in DOMAIN field_permissions
    /\ out.calls = <<"ssn">>

\* C7: the class's field_permissions table and the checks lists in it stay as
\* declared, whatever has_field_perm calls were made.
C7_TableUnchanged == field_permissions = declared

C7_Witness ==
    /\ IsFieldPermCall /\ out.source = "table"
    /\ declared[out.field].shape = "list"
    /\ \E j \in 1..Len(declared[out.field].items) : callable(declared[out.field].items[j])
    /\ field_permissions = declared

\* C8: a table entry that is one predicate, not in a list, is called with the
\* instance, the user and the field name, and has_field_perm returns its result:
\* True for a manager and False for a non-manager with the is_manager predicate.
C8_BarePredicate ==
    ( /\ IsFieldPermCall
      /\ out.field \in DOMAIN declared
      /\ declared[out.field].shape = "bare"
      /\ callable(declared[out.field].items[1]) )
    => LET perm == declared[out.field].items[1] IN
       /\ out.ret = CallPredicate(perm, out.self, out.user)
       /\ out.log = <<[CallEvent(perm, out.self, out.user) EXCEPT !.field = out.field]>>

\* C9: the checks come from the table entry when the field is a key of the table;
\* otherwise from the getter can_change_<field> alone when the instance has one;
\* otherwise from the static label can_change_<model>_<field> alone when it is a
\* declared permission, and then the result is whether the user holds it.
C9_Precedence ==
    IsFieldPermCall =>
        LET getter == "can_change_" \o out.field
            label  == "can_change_document_" \o out.field
        IN  IF out.field \in DOMAIN declared
            THEN /\ out.source = "table"
                 /\ out.checks = declared[out.field].items
                 /\ \A i \in 1..Len(out.log) :
                       \E j \in 1..Len(out.checks) : out.log[i].name = out.checks[j].name
            ELSE IF getter \in DOMAIN attrs
            THEN /\ out.source = "getter"
                 /\ out.checks = <<attrs[getter]>>
                 /\ out.log = <<CallEvent(attrs[getter], out.self, out.user)>>
            ELSE IF label \in permissions
            THEN /\ out.source = "static"
                 /\ out.checks = <<Label(label)>>
                 /\ out.log = <<HasPermEvent(Label(label), out.user)>>
                 /\ out.ret = IF label \in granted[out.user] THEN "True" ELSE "False"
            ELSE out.checks = <<>>

C9_Witness ==
    /\ IsFieldPermCall /\ out.field = "title" /\ out.user = "bob"
    /\ "title" \notin DOMAIN field_permissions
    /\ "can_change_title" \in DOMAIN attrs
    /\ "can_change_document_title" \in permissions
    /\ out.source = "getter" /\ out.ret = "False"

Entry(fn, user, perm, obj, ret) ==
    [fn |-> fn, user |-> user, perm |-> perm, obj |-> obj, ret |-> ret]

\* The calls a finished user.has_perm(perm, obj) on an instance made, innermost first.
ExpectedChain(user, perm, obj) ==
    IF user_has_perm(user, perm)
    THEN << Entry("User.has_perm", user, perm, "None", "True"),
            Entry("Model.has_perm", user, perm, obj, "True"),
            Entry("InstancePermissionBackend.has_perm", user, perm, obj, "True"),
            Entry("User.has_perm", user, perm, obj, "True") >>
    ELSE << Entry("InstancePermissionBackend.has_perm", user, perm, "None", "False"),
            Entry("User.has_perm", user, perm, "None", "False"),
            Entry("Model.has_perm", user, perm, obj, "False"),
            Entry("InstancePermissionBackend.has_perm", user, perm, obj, "False"),
            Entry("User.has_perm", user, perm, obj, "False") >>

ChainBounded ==
    /\ Len(stack) <= 5
    /\ \A i \in 1..(Len(stack) - 1) :
          stack[i].fn = "Model.has_perm" => stack[i + 1].obj = "None"
    /\ IsFieldPermCall =>
          \A i \in 1..Len(out.log) :
              out.log[i].ev = "user.has_perm" => out.log[i].obj = "None"
    /\ (IsChain /\ stack = <<>> /\ out.fn = "User.has_perm" /\ out.obj \in Instances)
          => out.log = ExpectedChain(out.user, out.perm, out.obj)

\* C10: the object-level hook is never re-entered: the model's has_perm and every
\* label check ask the user without an object, so user.has_perm(perm, obj) goes
\* through the backend, the object, the user and the backend with no object,
\* which answers False; the chain is at most five calls deep and every started
\* call returns.
C10_NoReentryTerminates ==
    /\ []ChainBounded
    /\ (stack # <<>>) ~> (stack = <<>>)

C10_Witness ==
    /\ IsChain /\ stack = <<>> /\ out.fn = "User.has_perm" /\ out.obj = "doc1"
    /\ Len(out.log) = 5
    /\ out.log[1] = Entry("InstancePermissionBackend.has_perm", out.user, out.perm,
                          "None", "False")
    /\ out.ret = "False"

====
